---- MODULE Spec2Model ----
(***************************************************************************)
(* Model of the function validation stage of the analyzer,                 *)
(* src/typescript/file_analyzer/src/analyzer/function.rs:                  *)
(*   validate(RFunction), qualify_ref_type_args, visit_fn and              *)
(*   TypeParamHandler::fold.                                               *)
(*                                                                         *)
(* Conventions.  An Option is a sequence of length 0 (None) or 1 (Some).   *)
(* A Type is a record with a "tag" field.  Spans are kept on errors, on    *)
(* type parameters and on function nodes; types are compared up to spans.  *)
(* Entity names are plain identifiers (RTsEntityName::Ident).              *)
(***************************************************************************)
EXTENDS Integers, Sequences, FiniteSets, TLC

VARIABLES
    fns,        \* the RFunction nodes of the session: node_id -> node
    scope,      \* scope id -> scope.declaring_fn (an Option of a name)
    mutations,  \* self.mutations: Option of for_fns (node_id -> Option ret_ty)
    storage,    \* the errors the most recent operation reported to self.storage
    call,       \* the most recent operation's input (NoCall before the first)
    ret,        \* the most recent operation's results (a sequence)
    fn_ty,      \* visit_fn's local fn_ty: what f.validate_with(self) returned
                \* in the most recent call (None when it failed)
    panicked    \* TRUE once assert_eq!(self.scope.declaring_fn, None) failed

vars == <<fns, scope, mutations, storage, call, ret, fn_ty, panicked>>

None == <<>>
Some(x) == <<x>>
IsSome(o) == Len(o) = 1
Unwrap(o) == o[1]

NoCall == [op |-> "none"]

(*************************** bounds of the model ***************************)
MaxParams == 4       \* length of a parameter list (parameter shape check)
MaxTypeParams == 2   \* declared type parameters of a referenced declaration
MaxTupleLen == 2     \* elements of an inferred tuple type
MaxDepth == 1        \* nesting depth of the trees given to the fold

(********************************* spans ***********************************)
Span(at, n) == [at |-> at, n |-> n]
Error(kind, span) == [kind |-> kind, span |-> span]

(********************************* types ***********************************)
Keyword(kind) == [tag |-> "Keyword", kind |-> kind]
Ref(name, type_args) ==
    [tag |-> "Ref", type_name |-> name, type_args |-> type_args, no_expand |-> FALSE]
Tuple(elems) == [tag |-> "Tuple", elems |-> elems]
TypeParam(name, constraint, default, n) ==
    [name |-> name, constraint |-> constraint, default |-> default,
     span |-> Span("type_param", n)]
Param(tp) == [tag |-> "Param", param |-> tp]
Class(name, type_params) ==
    [tag |-> "Class", name |-> name, type_params |-> type_params]
ClassInstance(ty) == [tag |-> "ClassInstance", ty |-> ty, type_args |-> None]
Function(params, type_params, ret_ty) ==
    [tag |-> "Function", params |-> params, type_params |-> type_params,
     ret_ty |-> ret_ty]
\* Type::any(span)
any == Keyword("Any")

IsKeyword(ty, kinds) == ty.tag = "Keyword" /\ ty.kind \in kinds

\* Sequences over S of length 0..n
SeqUpTo(S, n) == UNION {[1..k -> S] : k \in 0..n}

Count(seq, P(_)) == Cardinality({i \in 1..Len(seq) : P(seq[i])})

(***************************************************************************)
(* validate(RFunction), lines 33-57: the parameter shape check.  A pattern *)
(* is one of the kinds below; RPat::Ident carries the optional flag.       *)
(***************************************************************************)
PatKinds == {"OptionalIdent", "RequiredIdent", "Rest", "Other"}

\* has_optional before the loop reaches parameter i (1-based)
has_optional(params, i) == \E j \in 1..(i - 1) : params[j] = "OptionalIdent"

\* variant: only a parameter directly after an optional identifier is reported
MutReportsParam(params, i) ==
    /\ i > 1 /\ params[i - 1] = "OptionalIdent"
    /\ params[i] \notin {"OptionalIdent", "Rest"}

\* whether the loop reports Error::TS1016 for parameter i
ReportsParam(params, i) ==
    /\ has_optional(params, i)
    /\ params[i] \notin {"OptionalIdent", "Rest"}

RECURSIVE ShapeErrorsFrom(_, _)
ShapeErrorsFrom(params, i) ==
    IF i > Len(params) THEN <<>>
    ELSE (IF ReportsParam(params, i)
          THEN <<Error("TS1016", Span("param", i))>> ELSE <<>>)
         \o ShapeErrorsFrom(params, i + 1)

\* the errors the loop reports, in order
ParamShapeCheck(params) == ShapeErrorsFrom(params, 1)

(***************************************************************************)
(* TypeParamHandler::fold, lines 372-397.  fold_children_with rewrites the *)
(* children of a node with the same folder before the node is inspected.   *)
(***************************************************************************)
RECURSIVE fold(_, _)
FoldOpt(o, params) == IF IsSome(o) THEN Some(fold(Unwrap(o), params)) ELSE None
FoldSeq(s, params) == [i \in 1..Len(s) |-> fold(s[i], params)]

fold_children_with(ty, params) ==
    CASE ty.tag = "Ref" ->
           [ty EXCEPT !.type_args =
               IF IsSome(@) THEN Some(FoldSeq(Unwrap(@), params)) ELSE None]
      [] ty.tag = "Tuple" -> [ty EXCEPT !.elems = FoldSeq(@, params)]
      [] ty.tag = "Param" ->
           [ty EXCEPT !.param.constraint = FoldOpt(@, params),
                      !.param.default = FoldOpt(@, params)]
      [] ty.tag = "ClassInstance" -> [ty EXCEPT !.ty = fold(@, params)]
      [] OTHER -> ty

\* for param in params { if param.name == i { return Type::Param(param.clone()) } }
FirstMatch(ps, name) ==
    LET i == CHOOSE k \in 1..Len(ps) :
                 /\ ps[k].name = name
                 /\ \A j \in 1..(k - 1) : ps[j].name /= name
    IN ps[i]

fold(ty, params) ==
    IF IsSome(params)
    THEN LET t == fold_children_with(ty, params)
             ps == Unwrap(params)
         IN IF /\ t.tag = "Ref"
               /\ t.type_args = None
               /\ \E k \in 1..Len(ps) : ps[k].name = t.type_name
            THEN Param(FirstMatch(ps, t.type_name))
            ELSE t
    ELSE ty

(***************************************************************************)
(* qualify_ref_type_args, lines 199-248.  resolved is the outcome of       *)
(* type_of_ts_entity_name: [ok, ty].  The result is [ok, ty, errors, err]. *)
(***************************************************************************)
prevent_expansion(ty) == IF ty.tag = "Ref" THEN [ty EXCEPT !.no_expand = TRUE] ELSE ty

RECURSIVE FillFrom(_, _)
\* lines 232-244: the pushed arguments and the reported errors, parameter by parameter
FillFrom(tps, i) ==
    IF i > Len(tps) THEN [args |-> <<>>, errors |-> <<>>]
    ELSE LET rest == FillFrom(tps, i + 1)
         IN IF IsSome(tps[i].default)
            THEN [args |-> <<Unwrap(tps[i].default)>> \o rest.args,
                  errors |-> rest.errors]
            ELSE [args |-> <<any>> \o rest.args,
                  errors |-> <<Error("ImplicitAny", tps[i].span)>> \o rest.errors]

qualify_ref_type_args(ty, resolved) ==
    IF ~resolved.ok
    THEN [ok |-> FALSE, err |-> resolved.err, ty |-> ty, errors |-> <<>>]
    ELSE LET actual_ty == resolved.ty
             unchanged == [ok |-> TRUE, err |-> None, ty |-> ty, errors |-> <<>>]
         IN IF ~(/\ actual_ty.tag \in {"Alias", "Interface", "Class"}
                 /\ IsSome(actual_ty.type_params))
            THEN unchanged
            ELSE LET type_params == Unwrap(actual_ty.type_params)
                     arg_cnt == IF IsSome(ty.type_args)
                                THEN Len(Unwrap(ty.type_args)) ELSE 0
                 IN IF Len(type_params) <= arg_cnt
                    THEN unchanged
                    ELSE LET marked == prevent_expansion(ty)
                             fill == FillFrom(type_params, arg_cnt + 1)
                         IN IF IsSome(marked.type_args)
                            THEN [ok |-> TRUE, err |-> None,
                                  ty |-> [marked EXCEPT !.type_args =
                                             Some(Unwrap(@) \o fill.args)],
                                  errors |-> fill.errors]
                            ELSE [ok |-> TRUE, err |-> None, ty |-> marked,
                                  errors |-> <<>>]

(***************************************************************************)
(* The collaborators of validate.  The session analyses a module that      *)
(* declares: type Str = string; interface Box<T, U = string>; class C.     *)
(* Any other name resolves to a type parameter in scope.  Which            *)
(* collaborator call fails (at most one: the first failure aborts the      *)
(* validation) is the input fail_at of the call.                           *)
(***************************************************************************)
Alias(type_params, ty) == [tag |-> "Alias", type_params |-> type_params, ty |-> ty]
Interface(name, type_params) ==
    [tag |-> "Interface", name |-> name, type_params |-> type_params]

BoxParams ==
    <<TypeParam("T", None, None, 1), TypeParam("U", None, Some(Keyword("String")), 2)>>

\* type_of_ts_entity_name(span, module_id, &ty.type_name, ty.type_args.clone())
type_of_ts_entity_name(name, fail_at, span) ==
    IF fail_at = "resolve"
    THEN [ok |-> FALSE, err |-> Some(Error("NoSuchType", span)), ty |-> any]
    ELSE [ok |-> TRUE, err |-> None,
          ty |-> CASE name = "Str" -> Alias(None, Keyword("String"))
                   [] name = "Box" -> Interface("Box", Some(BoxParams))
                   [] name = "C" -> Class("C", None)
                   [] OTHER -> Param(TypeParam(name, None, None, 0))]

\* expand_fully(f.span, declared.clone(), true): aliases resolve to their body
expand_fully(ty, fail_at, span) ==
    IF fail_at = "expand_fully"
    THEN [ok |-> FALSE, err |-> Some(Error("ExpandFailed", span)), ty |-> ty]
    ELSE [ok |-> TRUE, err |-> None,
          ty |-> IF ty.tag = "Ref" /\ ty.type_name = "Str"
                 THEN Keyword("String") ELSE ty]

\* the expansion mark lives in the span, which type equality ignores
Plain(ty) == IF ty.tag = "Ref" THEN [ty EXCEPT !.no_expand = FALSE] ELSE ty

\* assign(&declared, &inferred_return_type, span) succeeds
Assignable(to, from) ==
    \/ IsKeyword(to, {"Any"})
    \/ IsKeyword(from, {"Any", "Never"})
    \/ Plain(to) = Plain(from)
    \/ IsKeyword(to, {"Void"}) /\ IsKeyword(from, {"Undefined"})

(***************************************************************************)
(* validate(RFunction), lines 27-191.                                      *)
(* f: [node_id, kind, ident, params, type_params, return_type, has_body],  *)
(* kind being "FnDecl" or "FnExpr" (the node that holds the function),     *)
(* type_params and return_type are what their validation yields when it    *)
(* succeeds.  c: the call, with fail_at and inferred, the Option that      *)
(* visit_stmts_for_return yields (None: no return statement).              *)
(***************************************************************************)
FnSpan(f) == Span("fn", f.node_id)
RetSpan(f) == Span("ret", f.node_id)           \* inferred_return_type.span()
DeclSpan(f) == Span("return_type", f.node_id)  \* declared.span()

\* lines 59-80 and 108-110: the first collaborator failure before the match
Prologue(f, c) ==
    CASE c.fail_at = "type_params" /\ IsSome(f.type_params) ->
           Some(Error("TypeParamsFailed", FnSpan(f)))
      [] c.fail_at = "params" /\ Len(f.params) > 0 ->
           Some(Error("ParamsFailed", FnSpan(f)))
      [] c.fail_at = "expand" /\ Len(f.params) > 0 ->
           Some(Error("ExpandFailed", FnSpan(f)))
      [] c.fail_at = "return_type" /\ IsSome(f.return_type) ->
           Some(Error("ReturnTypeFailed", DeclSpan(f)))
      [] c.fail_at = "body" /\ f.has_body ->
           Some(Error("BodyFailed", FnSpan(f)))
      [] OTHER -> None

\* lines 82-102
DeclaredRetTy(f) ==
    IF IsSome(f.return_type)
    THEN LET ret_ty == Unwrap(f.return_type)
         IN Some(prevent_expansion(IF ret_ty.tag = "Class"
                                   THEN ClassInstance(ret_ty) ELSE ret_ty))
    ELSE None

\* variant: the write overwrites a recorded entry
MutRecordRetTy(m, node_id, ty) ==
    IF IsSome(m) THEN Some([Unwrap(m) EXCEPT ![node_id] = Some(ty)]) ELSE m

\* lines 154-162 and 173-178: m.for_fns.entry(node_id).or_default().ret_ty
RecordRetTy(m, node_id, ty) ==
    IF IsSome(m) /\ Unwrap(m)[node_id] = None
    THEN Some([Unwrap(m) EXCEPT ![node_id] = Some(ty)])
    ELSE m

\* variant: a declared Any is not exempt
MutReturnRequired(f, declared) ==
    IF IsSome(declared) /\ ~IsKeyword(Unwrap(declared), {"Void", "Never"})
    THEN <<Error("ReturnRequired", DeclSpan(f))>> ELSE <<>>

\* lines 132-150
ReturnRequired(f, declared) ==
    IF IsSome(declared) /\ ~IsKeyword(Unwrap(declared), {"Any", "Void", "Never"})
    THEN <<Error("ReturnRequired", DeclSpan(f))>> ELSE <<>>

\* variant: the declared type is assigned without being expanded
MutReconcile(f, c, declared, inferred) ==
    IF IsSome(declared) /\ ~Assignable(Unwrap(declared), inferred)
    THEN Some(Error("AssignFailed", RetSpan(f)))
    ELSE None

\* lines 119-125: the error of the reconciliation, if any
Reconcile(f, c, declared, inferred) ==
    IF IsSome(declared)
    THEN LET e == expand_fully(Unwrap(declared), c.fail_at, FnSpan(f))
         IN IF ~e.ok THEN e.err
            ELSE IF ~Assignable(e.ty, inferred)
                 THEN Some(Error("AssignFailed", RetSpan(f)))
                 ELSE None
    ELSE None

\* line 187: declared_ret_ty.unwrap_or_else(|| inferred_return_type)
RetTy(declared, inferred) == IF IsSome(declared) THEN Unwrap(declared) ELSE inferred

validate(f, c, m) ==
    LET shape == ParamShapeCheck(f.params)
        pre == Prologue(f, c)
        declared == DeclaredRetTy(f)
        Fail(e, reported) ==
            [ok |-> FALSE, err |-> e, fn |-> None, reported |-> reported,
             mutations |-> m]
        Done(inferred, m1, reported) ==
            [ok |-> TRUE, err |-> None,
             fn |-> Some(Function(f.params, f.type_params, RetTy(declared, inferred))),
             reported |-> reported,
             mutations |-> IF f.return_type = None
                           THEN RecordRetTy(m1, f.node_id, inferred) ELSE m1]
    IN IF IsSome(pre) THEN Fail(pre, shape)
       ELSE IF ~f.has_body THEN Done(any, m, shape)
       ELSE IF IsSome(c.inferred)
       THEN LET ty == Unwrap(c.inferred)
                q == IF ty.tag = "Ref"
                     THEN qualify_ref_type_args(ty,
                              type_of_ts_entity_name(ty.type_name, c.fail_at, FnSpan(f)))
                     ELSE [ok |-> TRUE, err |-> None, ty |-> ty, errors |-> <<>>]
            IN IF ~q.ok THEN Fail(q.err, shape)
               ELSE LET r == Reconcile(f, c, declared, q.ty)
                    IN IF IsSome(r) THEN Fail(r, shape \o q.errors)
                       ELSE Done(q.ty, m, shape \o q.errors)
       ELSE LET void == Keyword("Void")
                m1 == IF f.return_type = None
                      THEN RecordRetTy(m, f.node_id, void) ELSE m
            IN Done(void, m1, shape \o ReturnRequired(f, declared))

(***************************************************************************)
(* visit_fn, lines 251-338.                                                *)
(***************************************************************************)
\* variant: only Undefined elements are widened
MutWidenTuple(ty) ==
    IF ty.tag = "Tuple"
    THEN [ty EXCEPT !.elems =
             [i \in 1..Len(@) |->
                 IF IsKeyword(@[i], {"Undefined"}) THEN any ELSE @[i]]]
    ELSE ty

\* lines 287-322: tuple widening of the return type
WidenTuple(ty) ==
    IF ty.tag = "Tuple"
    THEN [ty EXCEPT !.elems =
             [i \in 1..Len(@) |->
                 IF IsKeyword(@[i], {"Undefined", "Null"}) THEN any ELSE @[i]]]
    ELSE ty

\* name: Option of the identifier; declaring_fn: self.scope.declaring_fn
visit_fn(name, f, c, declaring_fn, m) ==
    IF IsSome(name) /\ declaring_fn /= None
    THEN [panic |-> TRUE, declaring_fn |-> declaring_fn, ty |-> None,
          fn_ty |-> None, reported |-> <<>>, mutations |-> m]
    ELSE LET slot == IF IsSome(name) THEN name ELSE declaring_fn
             v == validate(f, c, m)
         IN IF ~v.ok
            THEN [panic |-> FALSE, declaring_fn |-> slot, ty |-> Some(any),
                  fn_ty |-> None,
                  reported |-> v.reported \o <<Unwrap(v.err)>>,
                  mutations |-> v.mutations]
            ELSE LET validated == Unwrap(v.fn)
                     folded == fold(validated.ret_ty, validated.type_params)
                 IN [panic |-> FALSE, fn_ty |-> v.fn,
                     declaring_fn |-> IF IsSome(name) THEN None ELSE slot,
                     ty |-> Some([validated EXCEPT !.ret_ty = WidenTuple(folded)]),
                     reported |-> v.reported,
                     mutations |-> v.mutations]

(***************************************************************************)
(* validate(RFnDecl), lines 344-355, and validate(RFnExpr), lines 361-365. *)
(* c.override_fails: whether override_var fails for this declaration.      *)
(***************************************************************************)
validate_fn_decl(f, c, declaring_fn, m) ==
    LET r == visit_fn(f.ident, f, c, declaring_fn, m)
    IN IF ~r.panic /\ c.override_fails
       THEN [r EXCEPT !.reported = @ \o <<Error("OverrideFailed", FnSpan(f))>>]
       ELSE r

validate_fn_expr(f, c, declaring_fn, m) ==
    visit_fn(f.ident, f, c, declaring_fn, m)

(***************************************************************************)
(* The inputs of the model.                                                *)
(***************************************************************************)
ScopeIds == {"module", "block"}
IdentOf == <<"f", "g">>
Options(S) == {None} \cup {Some(x) : x \in S}

String == Keyword("String")
Number == Keyword("Number")
T == TypeParam("T", None, None, 1)
RefT == Ref("T", None)

\* the function nodes of a session of two functions
\* a function is held by an RFnDecl (always named) or an RFnExpr
FnDecl(id) == [kind |-> "FnDecl", ident |-> Some(IdentOf[id])]
FnExpr(ident) == [kind |-> "FnExpr", ident |-> ident]

Nodes(id, heads, params, type_params, return_types, bodies) ==
    {[node_id |-> id, kind |-> h.kind, ident |-> h.ident, params |-> p,
      type_params |-> tp, return_type |-> rt, has_body |-> b] :
        h \in heads, p \in params, tp \in type_params, rt \in return_types,
        b \in bodies}

SessionNodes(id) ==
    Nodes(id, {FnDecl(id), FnExpr(None)},
          {IF id = 1 THEN <<"OptionalIdent", "RequiredIdent">> ELSE <<>>},
          Options({<<T>>}), Options({String}), {TRUE})

\* what visit_stmts_for_return may yield in that session
SessionInferred ==
    Options({Number, RefT, Tuple(<<Keyword("Undefined"), Number>>)})

\* the function node of a session of one function
DeclTypes ==
    {any, Keyword("Void"), Keyword("Never"), String, Number,
     Ref("Str", None), RefT, Class("C", None)}
FnTypeParams ==
    {<<T>>, <<T, TypeParam("U", Some(RefT), None, 2)>>}
FnNodes ==
    Nodes(1, {FnDecl(1), FnExpr(None), FnExpr(Some(IdentOf[1]))},
          {<<>>, <<"OptionalIdent", "RequiredIdent">>},
          Options(FnTypeParams), Options(DeclTypes), BOOLEAN)

ElemTypes ==
    {Keyword("Undefined"), Keyword("Null"), Number, RefT,
     Tuple(<<Keyword("Undefined")>>)}
FnInferred ==
    Options({any, Keyword("Never"), Keyword("Undefined"), String, Number,
             RefT, Ref("Box", None), Ref("Box", Some(<<Number>>)),
             ClassInstance(Class("C", None))}
            \cup {Tuple(e) : e \in SeqUpTo(ElemTypes, MaxTupleLen)})

FailPoints ==
    {"none", "type_params", "params", "expand", "return_type", "body",
     "resolve", "expand_fully"}
\* the collaborator failures of the session of two functions
SessionFailPoints == {"none", "body", "resolve", "expand_fully"}

\* fail_at names a collaborator call that this validation makes, and inferred
\* is given only when visit_stmts_for_return is reached and succeeds
Applicable(f, fail_at, inferred) ==
    LET early == {"type_params", "params", "expand", "return_type", "body"}
    IN /\ fail_at = "type_params" => IsSome(f.type_params)
       /\ fail_at \in {"params", "expand"} => Len(f.params) > 0
       /\ fail_at = "return_type" => IsSome(f.return_type)
       /\ fail_at = "body" => f.has_body
       /\ (fail_at \in early \/ ~f.has_body) => inferred = None
       /\ ~f.has_body => fail_at \notin {"resolve", "expand_fully"}
       /\ fail_at = "resolve" => IsSome(inferred) /\ Unwrap(inferred).tag = "Ref"
       /\ fail_at = "expand_fully" => IsSome(inferred) /\ IsSome(f.return_type)

(***************************************************************************)
(* The session: the function declarations and expressions of the module   *)
(* validated in any order and any number of times, until an assertion      *)
(* aborts the process.                                                     *)
(***************************************************************************)
InitSession(nodes) ==
    /\ fns = nodes
    /\ scope = [s \in ScopeIds |-> None]
    /\ mutations \in {None, Some([id \in DOMAIN nodes |-> None])}
    /\ storage = <<>>
    /\ call = NoCall
    /\ ret = <<>>
    /\ fn_ty = None
    /\ panicked = FALSE

Init == \E f1 \in SessionNodes(1), f2 \in SessionNodes(2) : InitSession(<<f1, f2>>)

InitFn == \E f \in FnNodes : InitSession(<<f>>)

\* the state after a call c that gave r
Returned(c, r) ==
    /\ call' = c
    /\ panicked' = r.panic
    /\ scope' = [scope EXCEPT ![c.scope] = r.declaring_fn]
    /\ ret' = r.ty
    /\ fn_ty' = r.fn_ty
    /\ storage' = r.reported
    /\ mutations' = r.mutations
    /\ UNCHANGED fns

ValidateFnDecl(Inferred, Fails) ==
    /\ ~panicked
    /\ \E s \in ScopeIds, id \in DOMAIN fns, fail_at \in Fails,
          inferred \in Inferred, override_fails \in BOOLEAN :
          LET f == fns[id]
              c == [op |-> "visit_fn", scope |-> s, node |-> id,
                    fail_at |-> fail_at, inferred |-> inferred,
                    override_fails |-> override_fails]
          IN /\ f.kind = "FnDecl"
             /\ Applicable(f, fail_at, inferred)
             /\ Returned(c, validate_fn_decl(f, c, scope[s], mutations))

ValidateFnExpr(Inferred, Fails) ==
    /\ ~panicked
    /\ \E s \in ScopeIds, id \in DOMAIN fns, fail_at \in Fails,
          inferred \in Inferred :
          LET f == fns[id]
              c == [op |-> "visit_fn", scope |-> s, node |-> id,
                    fail_at |-> fail_at, inferred |-> inferred,
                    override_fails |-> FALSE]
          IN /\ f.kind = "FnExpr"
             /\ Applicable(f, fail_at, inferred)
             /\ Returned(c, validate_fn_expr(f, c, scope[s], mutations))

Next ==
    \/ ValidateFnDecl(SessionInferred, SessionFailPoints)
    \/ ValidateFnExpr(SessionInferred, SessionFailPoints)
Spec == Init /\ [][Next]_vars

OneFnDecl == call = NoCall /\ ValidateFnDecl(FnInferred, FailPoints)
OneFnExpr == call = NoCall /\ ValidateFnExpr(FnInferred, FailPoints)
NextFn == OneFnDecl \/ OneFnExpr
SpecFn == InitFn /\ [][NextFn]_vars

(***************************************************************************)
(* The parameter shape check on its own, over every parameter list.        *)
(***************************************************************************)
InitPure(calls) ==
    /\ call \in calls
    /\ fns = <<>> /\ scope = <<>> /\ mutations = None
    /\ storage = <<>> /\ ret = <<>> /\ fn_ty = None /\ panicked = FALSE

InitParams ==
    InitPure({[op |-> "params", params |-> p] : p \in SeqUpTo(PatKinds, MaxParams)})

CheckParams ==
    /\ call.op = "params" /\ ret = <<>>
    /\ storage' = ParamShapeCheck(call.params)
    /\ ret' = <<"done">>
    /\ UNCHANGED <<fns, scope, mutations, call, fn_ty, panicked>>

SpecParams == InitParams /\ [][CheckParams]_vars

(***************************************************************************)
(* qualify_ref_type_args on its own: a reference with or without type      *)
(* arguments, and every outcome of the name resolution.                    *)
(***************************************************************************)
ParamNames == <<"T", "U", "V", "W">>
Foo == Ref("Foo", None)
ArgTypes == {Ref("Bar", None), Ref("Baz", None)}

DeclTypeParams ==
    UNION {{[i \in 1..n |-> TypeParam(ParamNames[i], None, d[i], i)] :
                d \in [1..n -> Options({Foo})]} : n \in 0..MaxTypeParams}

Resolutions ==
    {[ok |-> FALSE, err |-> Some(Error("NoSuchType", Span("ref", 0))), ty |-> any]}
    \cup {[ok |-> TRUE, err |-> None, ty |-> d] :
            d \in UNION {{Alias(tp, String), Interface("Box", tp), Class("Box", tp),
                          Function(<<>>, tp, any)} : tp \in Options(DeclTypeParams)}}

InitQualify ==
    InitPure({[op |-> "qualify", ty |-> Ref("Box", a), resolved |-> r] :
                 a \in Options(SeqUpTo(ArgTypes, MaxTypeParams)), r \in Resolutions})

Qualify ==
    /\ call.op = "qualify" /\ ret = <<>>
    /\ LET q == qualify_ref_type_args(call.ty, call.resolved)
       IN /\ ret' = <<q>>
          /\ storage' = q.errors
    /\ UNCHANGED <<fns, scope, mutations, call, fn_ty, panicked>>

SpecQualify == InitQualify /\ [][Qualify]_vars

(***************************************************************************)
(* TypeParamHandler::fold on its own, applied once and then once more to   *)
(* its own result with the same parameter list.                            *)
(***************************************************************************)
Leaves == {Number, RefT, Ref("U", None), Ref("X", None)}

RECURSIVE Trees(_)
Trees(d) ==
    IF d = 0 THEN Leaves
    ELSE LET sub == Trees(d - 1)
         IN sub \cup {Tuple(<<a>>) : a \in sub}
                \cup {Tuple(<<a, b>>) : a \in sub, b \in sub}
                \cup {Ref("Box", Some(<<a>>)) : a \in sub}
                \cup {Ref("T", Some(<<a>>)) : a \in sub}

FoldParams ==
    Options({<<>>, <<T>>}
            \cup {<<T, TypeParam("U", c, d, 2)>> :
                     c \in Options({RefT, Number}), d \in Options({RefT, Number})})

InitFold ==
    InitPure({[op |-> "fold", ty |-> t, params |-> ps] :
                 t \in Trees(MaxDepth), ps \in FoldParams})

Fold ==
    /\ call.op = "fold" /\ Len(ret) < 2
    /\ ret' = Append(ret, fold(IF ret = <<>> THEN call.ty ELSE ret[Len(ret)],
                               call.params))
    /\ UNCHANGED <<fns, scope, mutations, storage, call, fn_ty, panicked>>

SpecFold == InitFold /\ [][Fold]_vars

(***************************************************************************)
(* Properties.                                                             *)
(***************************************************************************)
\* the errors that abort a validation, as opposed to the collected diagnostics
\* and to the error of override_var
Fatal(errors) ==
    SelectSeq(errors, LAMBDA e : e.kind \notin {"TS1016", "ImplicitAny", "ReturnRequired",
                                                "OverrideFailed"})
NumberOf(errors, kind) == Count(errors, LAMBDA e : e.kind = kind)
Reported(errors, e) == Count(errors, LAMBDA x : x = e)

\* the reference resolves to a generic declaration and supplies too few arguments
C1_UnderSupplied ==
    /\ call.op = "qualify" /\ ret /= <<>>
    /\ call.resolved.ok
    /\ call.resolved.ty.tag \in {"Alias", "Interface", "Class"}
    /\ IsSome(call.resolved.ty.type_params)
    /\ (IF IsSome(call.ty.type_args) THEN Len(Unwrap(call.ty.type_args)) ELSE 0)
         < Len(Unwrap(call.resolved.ty.type_params))

\* the result carries the supplied arguments, then defaults or Any
C1_Filled ==
    LET tps == Unwrap(call.resolved.ty.type_params)
        supplied == IF IsSome(call.ty.type_args) THEN Unwrap(call.ty.type_args)
                    ELSE <<>>
        k == Len(supplied)
        out == ret[1].ty
    IN /\ ret[1].ok
       /\ out.type_name = call.ty.type_name
       /\ IsSome(out.type_args)
       /\ Len(Unwrap(out.type_args)) = Len(tps)
       /\ \A i \in 1..k : Unwrap(out.type_args)[i] = supplied[i]
       /\ \A i \in (k + 1)..Len(tps) :
             Unwrap(out.type_args)[i] =
                 IF IsSome(tps[i].default) THEN Unwrap(tps[i].default) ELSE any
       /\ Len(storage) = Cardinality({i \in (k + 1)..Len(tps) : tps[i].default = None})
       /\ \A i \in (k + 1)..Len(tps) :
             tps[i].default = None =>
                 Reported(storage, Error("ImplicitAny", tps[i].span)) = 1

(* C1 (as stated in the specification): a reference that resolves to an    *)
(* Alias, Interface or Class with n type parameters and supplies k < n     *)
(* type arguments, k = 0 with no argument list included, comes back with   *)
(* exactly n arguments: the k supplied ones, then for each omitted         *)
(* parameter its default or else Any, and one ImplicitAny per omitted      *)
(* parameter without default.                                              *)
C1_QualifyFillsOmitted == C1_UnderSupplied => C1_Filled

\* the required identifiers that directly follow an optional identifier
C6_Adjacent(params) ==
    {i \in 2..Len(params) :
        params[i] = "RequiredIdent" /\ params[i - 1] = "OptionalIdent"}

(* C6 (as stated in the specification): exactly one TS1016 for each        *)
(* required identifier that directly follows an optional identifier, and   *)
(* none for a list without such an adjacency.                              *)
C6_OneErrorPerAdjacentPair ==
    (call.op = "params" /\ ret /= <<>>) =>
        /\ Len(storage) = Cardinality(C6_Adjacent(call.params))
        /\ \A i \in C6_Adjacent(call.params) :
              Reported(storage, Error("TS1016", Span("param", i))) = 1

\* the parameters, not optional and not rest, after some optional identifier
C6_Offending(params) ==
    {i \in 1..Len(params) :
        /\ params[i] \in {"RequiredIdent", "Other"}
        /\ \E j \in 1..Len(params) : j < i /\ params[j] = "OptionalIdent"}

(* C6 (amended): exactly one TS1016 for each parameter that is neither an  *)
(* optional identifier nor a rest parameter and has an optional identifier *)
(* anywhere before it, reported at that parameter, in list order; a list   *)
(* without such a parameter reports none.                                  *)
C6_OneErrorPerParamAfterOptional ==
    (call.op = "params" /\ ret /= <<>>) =>
        /\ Len(storage) = Cardinality(C6_Offending(call.params))
        /\ \A i \in C6_Offending(call.params) :
              Reported(storage, Error("TS1016", Span("param", i))) = 1
        /\ \A a, b \in 1..Len(storage) : a < b => storage[a].span.n < storage[b].span.n

\* a required identifier separated from the optional one by a rest parameter
C6_Witness ==
    /\ call.op = "params" /\ ret /= <<>>
    /\ call.params = <<"OptionalIdent", "Rest", "RequiredIdent", "Other">>
    /\ storage = <<Error("TS1016", Span("param", 3)), Error("TS1016", Span("param", 4))>>

(* C8 (as stated in the specification): applying the fold twice with the   *)
(* same parameter list yields the same tree as applying it once.           *)
C8_FoldIdempotent ==
    (call.op = "fold" /\ Len(ret) = 2) => ret[2] = ret[1]

(* C2 (as stated in the specification): every visit_fn call returns a      *)
(* type; when the validation fails fatally the error is reported exactly   *)
(* once and the call returns Any, otherwise it returns the Function type;  *)
(* the assertion on declaring_fn is never violated.                        *)
C2_VisitFnNeverFails ==
    /\ ~panicked
    /\ call.op = "visit_fn" =>
          /\ IsSome(ret)
          /\ IsSome(fn_ty) => Unwrap(ret).tag = "Function"
          /\ IsSome(fn_ty) => Fatal(storage) = <<>>
          /\ fn_ty = None => ret = Some(any) /\ Len(Fatal(storage)) = 1

(* C3 (as stated in the specification): whenever visit_fn has returned,    *)
(* declaring_fn is None again, on every exit path.                         *)
C3_DeclaringFnCleared ==
    \A s \in ScopeIds : scope[s] = None

(* C4: once a return type is recorded for a node id it never changes, and  *)
(* the validation of a function with a written return type leaves the      *)
(* ledger as it was.                                                       *)
C4_LedgerWriteOnce ==
    [][/\ IsSome(mutations) =>
            /\ IsSome(mutations')
            /\ \A id \in DOMAIN fns :
                  IsSome(Unwrap(mutations)[id]) =>
                      Unwrap(mutations')[id] = Unwrap(mutations)[id]
       /\ (call'.op = "visit_fn" /\ IsSome(fns[call'.node].return_type)) =>
            mutations' = mutations]_vars

\* a node validated again, with another inferred type than the recorded one
C4_Witness ==
    /\ call.op = "visit_fn" /\ fns[call.node].return_type = None
    /\ call.fail_at = "none" /\ call.inferred = Some(Number)
    /\ IsSome(fn_ty) /\ Unwrap(fn_ty).ret_ty = Number
    /\ IsSome(mutations) /\ Unwrap(mutations)[call.node] = Some(Keyword("Void"))

(* C10 (as stated in the specification): after a successful validation of  *)
(* a function without written return type whose ledger entry was absent,   *)
(* the recorded return type equals the ret_ty of the Function that         *)
(* visit_fn returns.                                                       *)
C10_LedgerAgreesWithFunction ==
    [][(/\ call'.op = "visit_fn" /\ fns[call'.node].return_type = None
        /\ IsSome(fn_ty')
        /\ IsSome(mutations) /\ Unwrap(mutations)[call'.node] = None)
       => Unwrap(mutations')[call'.node] = Some(Unwrap(ret').ret_ty)]_vars

\* the declared return type as validate holds it: a class stands for its
\* instances, a reference is marked against expansion
C5_Declared(f) ==
    LET d == Unwrap(f.return_type)
    IN CASE d.tag = "Class" ->
              [tag |-> "ClassInstance", ty |-> d, type_args |-> None]
         [] d.tag = "Ref" -> [d EXCEPT !.no_expand = TRUE]
         [] OTHER -> d

\* a function with a body without return statement and a declared return type
C5_NoReturnDeclared ==
    /\ call.op = "visit_fn"
    /\ fns[call.node].has_body /\ IsSome(fns[call.node].return_type)
    /\ call.fail_at = "none" /\ call.inferred = None

C5_Exempt(d) == d \in {Keyword("Any"), Keyword("Void"), Keyword("Never")}

(* C5 (as stated in the specification): with a declared type other than    *)
(* Any, Void, Never the validation reports one ReturnRequired, succeeds    *)
(* and yields return type Void whatever was declared; with Any, Void or    *)
(* Never it reports no ReturnRequired.                                     *)
C5_NoReturnYieldsVoid ==
    C5_NoReturnDeclared =>
        LET d == Unwrap(fns[call.node].return_type)
        IN /\ ~C5_Exempt(d) =>
                 /\ NumberOf(storage, "ReturnRequired") = 1
                 /\ IsSome(fn_ty)
                 /\ Unwrap(fn_ty).ret_ty = Keyword("Void")
           /\ C5_Exempt(d) => NumberOf(storage, "ReturnRequired") = 0

(* C5 (amended): with a declared type other than Any, Void, Never the      *)
(* validation reports one ReturnRequired, at the declared type, and        *)
(* succeeds; with Any, Void or Never it reports none.  In both cases the   *)
(* Function it yields carries the declared return type: Void is only the   *)
(* inferred type, which a declared type overrides.                         *)
C5_NoReturnKeepsDeclared ==
    C5_NoReturnDeclared =>
        LET f == fns[call.node]
            d == Unwrap(f.return_type)
        IN /\ IsSome(fn_ty) /\ IsSome(ret) /\ Unwrap(ret).tag = "Function"
           /\ Unwrap(fn_ty).ret_ty = C5_Declared(f)
           /\ ~C5_Exempt(d) =>
                 /\ NumberOf(storage, "ReturnRequired") = 1
                 /\ Reported(storage, Error("ReturnRequired", DeclSpan(f))) = 1
           /\ C5_Exempt(d) => NumberOf(storage, "ReturnRequired") = 0

\* function f(): string { }
C5_Witness ==
    /\ C5_NoReturnDeclared
    /\ fns[call.node].return_type = Some(String)
    /\ NumberOf(storage, "ReturnRequired") = 1
    /\ IsSome(fn_ty) /\ Unwrap(fn_ty).ret_ty = String

\* a function with a declared return type whose body yields an inferred type
C7_DeclaredAndInferred ==
    /\ call.op = "visit_fn"
    /\ fns[call.node].has_body /\ IsSome(fns[call.node].return_type)
    /\ IsSome(call.inferred)
    /\ call.fail_at \in {"none", "resolve", "expand_fully"}

\* the declared type, aliases resolved, accepts the inferred type
C7_Accepts(f, inferred) ==
    LET d == Unwrap(f.return_type)
        target == CASE d.tag = "Ref" /\ d.type_name = "Str" -> String
                    [] d.tag = "Class" ->
                         [tag |-> "ClassInstance", ty |-> d, type_args |-> None]
                    [] OTHER -> d
    IN \/ target = any
       \/ inferred \in {any, Keyword("Never")}
       \/ target.tag = "Ref" /\ inferred.tag = "Ref"
            /\ target.type_name = inferred.type_name
            /\ target.type_args = inferred.type_args
       \/ target.tag /= "Ref" /\ target = inferred
       \/ target = Keyword("Void") /\ inferred = Keyword("Undefined")

C7_Reconciled(f) ==
    /\ fn_ty = None <=> ~C7_Accepts(f, Unwrap(call.inferred))
    /\ fn_ty = None =>
          /\ ret = Some(any)
          /\ Fatal(storage) = <<Error("AssignFailed", RetSpan(f))>>
    /\ IsSome(fn_ty) => Unwrap(fn_ty).ret_ty = C5_Declared(f)

(* C7 (as stated in the specification): with a written return type and an  *)
(* inferred one, validation fails if and only if the expanded declared     *)
(* type does not accept the inferred type; the failure is the              *)
(* assignability error at the inferred type's span and visit_fn yields     *)
(* Any; otherwise the Function carries the declared type.                  *)
C7_FailsIffNotAssignable ==
    C7_DeclaredAndInferred => C7_Reconciled(fns[call.node])

(* C7 (amended): the same, provided that neither the resolution of an      *)
(* inferred reference nor the full expansion of the declared type fails;   *)
(* each of these failures is fatal as well: it is the error reported, and  *)
(* visit_fn yields Any.                                                    *)
C7_FailsIffNotAssignableOrCollaboratorFails ==
    C7_DeclaredAndInferred =>
        /\ call.fail_at = "none" => C7_Reconciled(fns[call.node])
        /\ call.fail_at /= "none" =>
              /\ fn_ty = None /\ ret = Some(any)
              /\ Len(Fatal(storage)) = 1
              /\ Fatal(storage)[1].kind =
                    (IF call.fail_at = "resolve" THEN "NoSuchType" ELSE "ExpandFailed")

\* function f(): string { return 1 }
C7_Witness ==
    /\ C7_DeclaredAndInferred /\ call.fail_at = "none"
    /\ fns[call.node].return_type = Some(String)
    /\ call.inferred = Some(Number)
    /\ fn_ty = None /\ ret = Some(any)
    /\ Fatal(storage) = <<Error("AssignFailed", RetSpan(fns[call.node]))>>

(* C9: after a successful validation and the back-substitution, a tuple    *)
(* return type keeps its length and order, its elements that are exactly   *)
(* Undefined or Null become Any, the others stay; a return type that is    *)
(* not a tuple stays as it is.                                             *)
C9_TupleWidening ==
    (call.op = "visit_fn" /\ IsSome(fn_ty)) =>
        LET before == fold(Unwrap(fn_ty).ret_ty, Unwrap(fn_ty).type_params)
            after == Unwrap(ret).ret_ty
        IN IF before.tag = "Tuple"
           THEN /\ after.tag = "Tuple"
                /\ Len(after.elems) = Len(before.elems)
                /\ \A i \in 1..Len(before.elems) :
                      after.elems[i] =
                          IF before.elems[i] \in {Keyword("Undefined"), Keyword("Null")}
                          THEN any ELSE before.elems[i]
           ELSE after = before

\* function f() { return [null, undefined]; }
C9_Witness ==
    /\ call.op = "visit_fn" /\ IsSome(fn_ty)
    /\ Unwrap(fn_ty).ret_ty = Tuple(<<Keyword("Null"), Tuple(<<Keyword("Undefined")>>)>>)
    /\ Unwrap(ret).ret_ty = Tuple(<<any, Tuple(<<Keyword("Undefined")>>)>>)

====
